---- MODULE Spec2Model ----
(***************************************************************************)
(* A model of the alarm service worker src/sw.js.                          *)
(*                                                                         *)
(* The worker is single threaded: a handler runs until its next `await`,   *)
(* and handlers interleave only at awaits.  Every await of the source      *)
(* waits for one external operation (an IndexedDB request, a notification  *)
(* call).  Requests on one store are served in the order they were issued, *)
(* so one step of a handler is: resume after the previous operation, run   *)
(* the synchronous code up to the next await, and let that operation take  *)
(* effect.  Handlers in flight are the entries of `tasks`; the in-memory   *)
(* state (timer handles, keepAliveRunning) is lost by KillProcess, the     *)
(* stores and the notification tray are not.                               *)
(*                                                                         *)
(* An alarm record is [tag, fireAt, id]: id stands for the rest of the     *)
(* record (title, body, actions, data) and is different for every message  *)
(* entry that creates an alarm, so that notifications can be counted per   *)
(* alarm.                                                                  *)
(***************************************************************************)
EXTENDS Integers, Sequences, FiniteSets, TLC

VARIABLES
  clock,             \* index into Timeline: Date.now() = Timeline[clock]
  store,             \* object store 'alarms': a set of alarm records
  nextWake,          \* meta['nextWake']: {} (absent) or {fireAt}
  pref,              \* meta['statusNotifEnabled']: "unset", "true", "false"
  statusShown,       \* the tray holds a notification tagged STATUS_TAG
  timers,            \* outstanding setTimeout callbacks
  nextWakeTimer,     \* _nextWakeTimer: {} (null) or {timer}
  keepAliveTimer,    \* keepAliveTimer: {} (null) or {timer}
  keepAliveRunning,  \* keepAliveRunning
  snoozeTimers,      \* snoozeTimers[tag]: {} (no entry) or {timer}
  tasks,             \* handlers in flight, one per slot
  notified,          \* per alarm id: showNotification calls by path
  cancelled,         \* alarms deleted by CANCEL_ALARM before they were due
  nextId,            \* next unused alarm id
  overlaps,          \* how often a handler started while another was in flight
  kills,             \* how often the host killed the process
  cancelMark,        \* per tag: nextId when CANCEL_ALARM of the tag last arrived
  shows,             \* showNotification calls made by SHOW_ALARM
  windows,           \* open window clients of the page (0 or 1)
  inbox,             \* messages the page has received from the worker
  faults             \* operations that failed, and what became of the failure

vars == << clock, store, nextWake, pref, statusShown, timers, nextWakeTimer,
           keepAliveTimer, keepAliveRunning, snoozeTimers, tasks, notified,
           cancelled, nextId, overlaps, kills, cancelMark, shows, windows,
           inbox, faults >>

----------------------------------------------------------------------------
(* Program constants *)

STATUS_TAG == "alarm-watcher"
LATE_GRACE_MS == 600000
TICK_MS == 20000

(* Bounds and inputs of the model *)

MaxAlarms == 2                      \* alarm-creating message entries per run
MaxOverlaps == 1                    \* handler starts while another is in flight
MaxKills == 1                       \* process kills per run
MaxClicks == 2                      \* messages the page receives per run
MaxShows == 2                       \* SHOW_ALARM messages per run
MaxFaults == 1                      \* operations that fail per run
ScanTimeline == << 1000, 6000, 606000, 606001 >>   \* instants around one alarm
\* later instants, one per wait of the repost loop
RepostTimeline == [ k \in 1..10 |-> 606001 + 8000 * k ]
Timeline == ScanTimeline \o RepostTimeline         \* the instants Date.now() takes
Delays == { 0, 5000 }               \* SCHEDULE_ALARM delays
LongDelay == 1000000                \* a delay that outlasts the timeline
TagOrder == << "a", "alarm-watcher", "b" >>    \* key order of the store
AllTags == { TagOrder[k] : k \in 1..Len(TagOrder) }
RealTags == AllTags \ { STATUS_TAG }
Slots == { 1, 2 }                   \* handlers that can be in flight together
Ids == 1..MaxAlarms

----------------------------------------------------------------------------
(* Small helpers *)

Max(a, b) == IF a >= b THEN a ELSE b
MinOf(S) == CHOOSE x \in S : \A y \in S : x <= y
TagRank(tag) == CHOOSE k \in 1..Len(TagOrder) : TagOrder[k] = tag

KeyBefore(x, y) ==
  \/ TagRank(x.tag) < TagRank(y.tag)
  \/ x.tag = y.tag /\ x.fireAt < y.fireAt
  \/ x.tag = y.tag /\ x.fireAt = y.fireAt /\ x.id <= y.id

RECURSIVE InKeyOrder(_)
InKeyOrder(S) ==
  IF S = {} THEN << >>
  ELSE LET a == CHOOSE x \in S : \A y \in S : KeyBefore(x, y)
       IN << a >> \o InKeyOrder(S \ { a })

Range(q) == { q[k] : k \in 1..Len(q) }

----------------------------------------------------------------------------
(* IndexedDB helpers on the 'alarms' store (keyPath 'tag') *)

\* a put that would add without replacing the record of the same key
dbPutKeepsOld(S, value) == S \cup { value }
dbPut(S, value) == { r \in S : r.tag # value.tag } \cup { value }
dbDelete(S, key) == { r \in S : r.tag # key }
\* a clear that would leave the records in place
dbClearKeepsAll(S) == S
dbClear(S) == { }
dbGetAll(S) == InKeyOrder(S)

----------------------------------------------------------------------------
(* The state as one record, so that synchronous code composes *)

State ==
  [ now |-> Timeline[clock], store |-> store, nextWake |-> nextWake,
    pref |-> pref, statusShown |-> statusShown, timers |-> timers,
    nextWakeTimer |-> nextWakeTimer, keepAliveTimer |-> keepAliveTimer,
    keepAliveRunning |-> keepAliveRunning, snoozeTimers |-> snoozeTimers,
    tasks |-> tasks, notified |-> notified, cancelled |-> cancelled,
    nextId |-> nextId, cancelMark |-> cancelMark, shows |-> shows,
    windows |-> windows, inbox |-> inbox, faults |-> faults ]

\* n: operations that failed in the run; display: the alarms whose
\* showNotification call in a scan was rejected; escaped: the handlers that
\* ended by a rejection nothing caught
NoFaults == [ n |-> 0, display |-> { }, escaped |-> { } ]

InFlight(ts) == Cardinality({ i \in Slots : ts[i].k # "idle" })

Install(s) ==
  /\ store' = s.store
  /\ nextWake' = s.nextWake
  /\ pref' = s.pref
  /\ statusShown' = s.statusShown
  /\ timers' = s.timers
  /\ nextWakeTimer' = s.nextWakeTimer
  /\ keepAliveTimer' = s.keepAliveTimer
  /\ keepAliveRunning' = s.keepAliveRunning
  /\ snoozeTimers' = s.snoozeTimers
  /\ tasks' = s.tasks
  /\ notified' = s.notified
  /\ cancelled' = s.cancelled
  /\ nextId' = s.nextId
  /\ cancelMark' = s.cancelMark
  /\ shows' = s.shows
  /\ windows' = s.windows
  /\ inbox' = s.inbox
  /\ faults' = s.faults
  /\ overlaps' = IF InFlight(tasks) >= 1 /\ InFlight(s.tasks) > InFlight(tasks)
                 THEN overlaps + 1 ELSE overlaps
  /\ UNCHANGED << clock, kills >>

Becomes(S) == \E s \in S : Install(s)

IdleTask ==
  [ k |-> "idle", pc |-> "idle", now |-> 0, alarms |-> << >>, i |-> 0,
    got |-> << >>, delay |-> 0, tag |-> "", id |-> 0, list |-> << >>,
    seen |-> FALSE, wake |-> { }, phase |-> 0, act |-> << >>, calls |-> 0 ]

NewTask(kind) == [ IdleTask EXCEPT !.k = kind ]

Timer(slot, tag, deadline, id) ==
  [ slot |-> slot, tag |-> tag, deadline |-> deadline, id |-> id ]

SetTask(s, i, t) == [ s EXCEPT !.tasks[i] = t ]
Finish(s, i) == [ s EXCEPT !.tasks[i] = IdleTask ]

----------------------------------------------------------------------------
(* Keep-alive loop *)

scheduleTick(s) ==
  LET t == Timer("tick", "", s.now + TICK_MS, 0)
  IN [ s EXCEPT !.timers = (s.timers \ s.keepAliveTimer) \cup { t },
                !.keepAliveTimer = { t } ]

\* a start that would schedule a tick even while the loop runs
startKeepAliveAlways(s) == scheduleTick([ s EXCEPT !.keepAliveRunning = TRUE ])
startKeepAlive(s) ==
  IF s.keepAliveRunning THEN s
  ELSE scheduleTick([ s EXCEPT !.keepAliveRunning = TRUE ])

\* a stop that would clear the timer and leave the flag set
stopKeepAliveKeepsRunning(s) ==
  [ s EXCEPT !.timers = s.timers \ s.keepAliveTimer, !.keepAliveTimer = { } ]
stopKeepAlive(s) ==
  [ s EXCEPT !.keepAliveRunning = FALSE,
             !.timers = s.timers \ s.keepAliveTimer,
             !.keepAliveTimer = { } ]

(* Next-wake timer *)

\* an arming that would not clear the timer already in the slot
armNextWakeTimerKeepsOld(s, delay) ==
  LET t == Timer("wake", "", s.now + Max(0, delay), 0)
  IN [ s EXCEPT !.timers = s.timers \cup { t }, !.nextWakeTimer = { t } ]
armNextWakeTimer(s, delay) ==
  LET t == Timer("wake", "", s.now + Max(0, delay), 0)
  IN [ s EXCEPT !.timers = (s.timers \ s.nextWakeTimer) \cup { t },
                !.nextWakeTimer = { t } ]

(* Snooze timers *)

setSnoozeTimer(s, tag, delay, id) ==
  LET t == Timer("snooze", tag, s.now + Max(0, delay), id)
  IN [ s EXCEPT !.timers = (s.timers \ s.snoozeTimers[tag]) \cup { t },
                !.snoozeTimers[tag] = { t } ]

----------------------------------------------------------------------------
(* Status notification: updateStatusNotification, clearStatusNotification. *)
(* Each operator below is one resumption of the async function.            *)

\* call updateStatusNotification: dbGet('meta','statusNotifEnabled')
usnEnter(s, i) ==
  [ s EXCEPT !.tasks[i].pc = "usn_pref", !.tasks[i].seen = (s.pref = "false") ]

\* call clearStatusNotification: getNotifications({tag: STATUS_TAG})
csnEnter(s, i) ==
  [ s EXCEPT !.tasks[i].pc = "csn_got", !.tasks[i].seen = s.statusShown ]

\* the repost loop after its updateStatusNotification: getNotifications
rpConfirm(s, i) ==
  [ s EXCEPT !.tasks[i].pc = "rp_check", !.tasks[i].seen = s.statusShown ]

\* call tryRegisterPeriodicSync: periodicSync.register('check-alarms', ..),
\* which touches none of the state kept here; on a host without periodicSync
\* the function returns at once and the await lets no other handler in
regEnter(s, i) == [ s EXCEPT !.tasks[i].pc = "registered" ]

\* resumed after tryRegisterPeriodicSync (activate, SYNC_ALARMS,
\* START_KEEPALIVE): updateStatusNotification
registered(s, i) == usnEnter(s, i)

\* what the handler does once updateStatusNotification (or, in phase 1,
\* rearmOnWakeup) has returned
afterUSN(s, i) ==
  LET t == s.tasks[i]
  IN CASE t.k = "wake" -> Finish(startKeepAlive(s), i)
       [] t.k = "close" -> rpConfirm(s, i)
       [] t.k = "startka" /\ t.phase = 1 ->
            regEnter([ s EXCEPT !.tasks[i].phase = 2 ], i)
       [] OTHER -> Finish(s, i)

\* what the handler does once clearStatusNotification has returned
afterCSN(s, i) ==
  IF s.tasks[i].k = "tick" THEN Finish(s, i) ELSE afterUSN(s, i)

\* resumed with the preference: clear if disabled, else dbGetAll('alarms')
usnPref(s, i) ==
  IF s.tasks[i].seen
  THEN csnEnter(s, i)
  ELSE [ s EXCEPT !.tasks[i].pc = "usn_got",
                  !.tasks[i].seen = FALSE,
                  !.tasks[i].got = dbGetAll(s.store) ]

\* the same resumption when the host rejects showNotification: the catch of
\* line 183 logs it and the function returns
usnGotRejected(s, i) ==
  LET t == s.tasks[i]
      upcoming == { a \in Range(t.got) : a.fireAt > s.now }
      u == [ s EXCEPT !.tasks[i].got = << >> ]
  IN IF upcoming = { }
     THEN csnEnter(u, i)
     ELSE [ u EXCEPT !.tasks[i].pc = "usn_shown" ]

\* resumed with the alarms: show the status notification if any is upcoming
usnGot(s, i) ==
  LET t == s.tasks[i]
      upcoming == { a \in Range(t.got) : a.fireAt > s.now }
      u == [ s EXCEPT !.tasks[i].got = << >> ]
  IN IF upcoming = { }
     THEN csnEnter(u, i)
     ELSE [ u EXCEPT !.tasks[i].pc = "usn_shown", !.statusShown = TRUE ]

usnShown(s, i) == afterUSN(s, i)

\* resumed with the visible status notifications: close each
csnGot(s, i) ==
  afterCSN([ s EXCEPT !.statusShown = IF s.tasks[i].seen THEN FALSE ELSE @,
                      !.tasks[i].seen = FALSE ], i)

----------------------------------------------------------------------------
(* _updateNextWakeMeta *)

\* call _updateNextWakeMeta: dbGetAll('alarms')
unwEnter(s, i) ==
  [ s EXCEPT !.tasks[i].pc = "unw_got", !.tasks[i].got = dbGetAll(s.store) ]

\* the fire times _updateNextWakeMeta chooses among
FutureFireAts(alarms, now) ==
  { a.fireAt : a \in { x \in alarms : x.fireAt > now /\ x.tag # STATUS_TAG } }

\* resumed with the alarms: persist the earliest future fireAt, or delete it
unwGot(s, i) ==
  LET t == s.tasks[i]
      future == FutureFireAts(Range(t.got), s.now)
      u == [ s EXCEPT !.tasks[i].got = << >> ]
  IN IF future # { }
     THEN [ u EXCEPT !.nextWake = { MinOf(future) },
                     !.tasks[i].pc = "unw_put",
                     !.tasks[i].delay = MinOf(future) - s.now ]
     ELSE [ u EXCEPT !.nextWake = { }, !.tasks[i].pc = "unw_del" ]

----------------------------------------------------------------------------
(* checkDueAlarms *)

ScanKinds == { "activate", "periodicsync", "push", "wake", "fetch", "startka", "tick" }

\* call checkDueAlarms: now = Date.now(); dbGetAll('alarms')
cdaEnter(s, i) ==
  [ s EXCEPT !.tasks[i].pc = "cda_loop",
             !.tasks[i].now = s.now,
             !.tasks[i].alarms = dbGetAll(s.store),
             !.tasks[i].i = 1 ]

\* due tests that would differ from line 207 at one of its boundaries
IsDueAfterFireAt(age) == age > 0 /\ age <= LATE_GRACE_MS
IsDueWithoutGrace(age) == age >= 0
IsDueBeforeFireAt(age) == age <= LATE_GRACE_MS
IsDue(age) == age >= 0 /\ age <= LATE_GRACE_MS
IsLate(age) == age > LATE_GRACE_MS
IsSkipped(alarm) == alarm.tag = STATUS_TAG

CountScan(n, id) == [ n EXCEPT ![id].scan = @ + 1 ]
CountSnooze(n, id) == [ n EXCEPT ![id].snooze = @ + 1 ]

\* the for loop, from entry t.i to its next await (or to the end of the loop)
cdaLoop(s, i) ==
  LET t == s.tasks[i]
      todo == { j \in t.i..Len(t.alarms) :
                  /\ ~IsSkipped(t.alarms[j])
                  /\ \/ IsDue(t.now - t.alarms[j].fireAt)
                     \/ IsLate(t.now - t.alarms[j].fireAt) }
  IN IF todo = { }
     THEN unwEnter([ s EXCEPT !.tasks[i].i = Len(t.alarms) + 1 ], i)
     ELSE LET j == MinOf(todo)
              a == t.alarms[j]
          IN IF IsDue(t.now - a.fireAt)
             THEN [ s EXCEPT !.notified = CountScan(@, a.id),
                             !.tasks[i].i = j,
                             !.tasks[i].pc = "cda_shown" ]
             ELSE [ s EXCEPT !.store = dbDelete(@, a.tag),
                             !.tasks[i].i = j + 1 ]

\* the entries of its snapshot the loop in slot i has still to act on
cdaTodo(s, i) ==
  LET t == s.tasks[i]
  IN { j \in t.i..Len(t.alarms) :
         /\ ~IsSkipped(t.alarms[j])
         /\ \/ IsDue(t.now - t.alarms[j].fireAt)
            \/ IsLate(t.now - t.alarms[j].fireAt) }

\* the loop reaches a due alarm and the host rejects showNotification: the
\* catch of line 221 logs it
cdaLoopRejected(s, i) ==
  LET j == MinOf(cdaTodo(s, i))
  IN [ s EXCEPT !.faults.display = @ \cup { s.tasks[i].alarms[j].id },
                !.faults.n = @ + 1,
                !.tasks[i].i = j,
                !.tasks[i].pc = "cda_shown" ]

\* a scan that would keep, for a later pass, the alarm whose display failed
cdaShownRetriesRejected(s, i) ==
  LET t == s.tasks[i]
  IN [ s EXCEPT !.store = IF t.alarms[t.i].id \in s.faults.display
                          THEN @ ELSE dbDelete(@, t.alarms[t.i].tag),
                !.tasks[i].i = t.i + 1,
                !.tasks[i].pc = "cda_loop" ]
\* a scan that would not delete the alarm it has shown
cdaShownKeepsAlarm(s, i) ==
  [ s EXCEPT !.tasks[i].i = s.tasks[i].i + 1, !.tasks[i].pc = "cda_loop" ]
\* resumed after showNotification: dbDelete('alarms', alarm.tag)
cdaShown(s, i) ==
  LET t == s.tasks[i]
  IN [ s EXCEPT !.store = dbDelete(@, t.alarms[t.i].tag),
                !.tasks[i].i = t.i + 1,
                !.tasks[i].pc = "cda_loop" ]

\* call rearmOnWakeup
rearmEnter(s, i) ==
  IF s.nextWakeTimer # { }
  THEN afterUSN([ s EXCEPT !.tasks[i].phase = 1 ], i)
  ELSE [ s EXCEPT !.tasks[i].pc = "rearm_got", !.tasks[i].wake = s.nextWake ]

\* a rearm that would arm the timer even when nextWake has passed
rearmGotAlwaysArms(s, i) ==
  LET t == s.tasks[i]
      u == [ s EXCEPT !.tasks[i].wake = { }, !.tasks[i].phase = 1 ]
  IN IF t.wake = { }
     THEN afterUSN(u, i)
     ELSE afterUSN(armNextWakeTimer(u, MinOf(t.wake) - s.now), i)
\* resumed with meta['nextWake']
rearmGot(s, i) ==
  LET t == s.tasks[i]
      u == [ s EXCEPT !.tasks[i].wake = { }, !.tasks[i].phase = 1 ]
  IN IF t.wake = { }
     THEN afterUSN(u, i)
     ELSE LET delay == MinOf(t.wake) - s.now
          IN IF delay <= 0
             THEN cdaEnter(u, i)
             ELSE afterUSN(armNextWakeTimer(u, delay), i)

\* what the handler does once checkDueAlarms has returned
afterCDA(s, i) ==
  LET t == s.tasks[i]
      u == [ s EXCEPT !.tasks[i].alarms = << >>, !.tasks[i].i = 0,
                      !.tasks[i].now = 0, !.tasks[i].delay = 0 ]
  IN CASE t.k = "activate" -> regEnter(startKeepAlive(u), i)
       [] t.k \in { "periodicsync", "push" } -> usnEnter(startKeepAlive(u), i)
       [] t.k \in { "wake", "fetch", "startka" } -> usnEnter(u, i)
       [] t.k = "tick" -> [ u EXCEPT !.tasks[i].pc = "tick_rem",
                                     !.tasks[i].got = dbGetAll(u.store) ]

\* what the handler does once _updateNextWakeMeta has returned
afterUNW(s, i) ==
  LET t == s.tasks[i]
      u == [ s EXCEPT !.tasks[i].delay = 0 ]
  IN CASE t.k \in ScanKinds -> afterCDA(s, i)
       [] t.k = "sync" -> regEnter(u, i)
       [] OTHER -> usnEnter(u, i)

\* a resync that would persist nextWake and arm no timer
unwPutArmsNothing(s, i) == afterUNW(s, i)
\* resumed after dbPut('meta', next.fireAt, 'nextWake')
unwPut(s, i) == afterUNW(armNextWakeTimer(s, s.tasks[i].delay), i)

\* resumed after dbDelete('meta', 'nextWake')
unwDel(s, i) == afterUNW(s, i)

\* the tick callback resumed with the remaining alarms
tickRem(s, i) ==
  LET t == s.tasks[i]
      hasReal == \E a \in Range(t.got) : a.tag # STATUS_TAG
      u == [ s EXCEPT !.tasks[i].got = << >> ]
  IN IF ~hasReal
     THEN csnEnter(stopKeepAlive(u), i)
     ELSE [ u EXCEPT !.tasks[i].pc = "tick_fetched" ]

\* the tick callback resumed after fetch('./manifest.json'): the next tick
tickFetched(s, i) ==
  Finish(IF s.keepAliveRunning THEN scheduleTick(s) ELSE s, i)

----------------------------------------------------------------------------
(* activate, before its scan *)

\* resumed with caches.keys(): Promise.all of the caches.delete calls
activateKeys(s, i) == [ s EXCEPT !.tasks[i].pc = "activate_deleted" ]
\* resumed after the deletes: clients.claim()
activateDeleted(s, i) == [ s EXCEPT !.tasks[i].pc = "activate_claimed" ]
\* resumed after clients.claim(): checkDueAlarms
activateClaimed(s, i) == cdaEnter(s, i)

----------------------------------------------------------------------------
(* Snooze timer callback and message handlers, after their first await *)

\* snooze callback resumed after dbDelete: showNotification under the tag
\* of the alarm
snoozeDeleted(s, i) ==
  [ s EXCEPT !.notified = CountSnooze(@, s.tasks[i].id),
             !.statusShown = IF s.tasks[i].tag = STATUS_TAG THEN TRUE ELSE @,
             !.tasks[i].pc = "snooze_shown" ]

snoozeShown(s, i) == usnEnter(s, i)

\* a SHOW_ALARM that would start the keep-alive loop as SCHEDULE_ALARM does
showShownStartsKeepAlive(s, i) == usnEnter(startKeepAlive(s), i)
\* SHOW_ALARM resumed after showNotification
showShown(s, i) == usnEnter(s, i)

\* SET_STATUS_NOTIF resumed after dbPut('meta', enabled, 'statusNotifEnabled')
prefStored(s, i) ==
  IF s.tasks[i].phase = 1 THEN usnEnter(s, i) ELSE csnEnter(s, i)

\* SCHEDULE_ALARM resumed after dbPut
scheduleStored(s, i) == unwEnter(startKeepAlive(s), i)

\* CANCEL_ALARM resumed after dbDelete
cancelDeleted(s, i) == usnEnter(s, i)

\* SYNC_ALARMS: the for loop from entry t.i to its next dbPut
syncLoop(s, i) ==
  LET t == s.tasks[i]
      todo == { j \in t.i..Len(t.list) : t.list[j].fireAt > t.now }
  IN IF todo = { }
     THEN unwEnter(startKeepAlive(
            [ s EXCEPT !.tasks[i].list = << >>, !.tasks[i].i = 0,
                       !.tasks[i].now = 0 ]), i)
     ELSE [ s EXCEPT !.store = dbPut(@, t.list[MinOf(todo)]),
                     !.tasks[i].i = MinOf(todo) + 1 ]

\* SYNC_ALARMS resumed after dbClear: now = Date.now(), then the loop
syncCleared(s, i) ==
  syncLoop([ s EXCEPT !.tasks[i].now = s.now, !.tasks[i].i = 1,
                      !.tasks[i].pc = "sync_loop" ], i)

\* the entries SYNC_ALARMS has still to put, at its resumption in slot i
syncTodo(s, i) ==
  LET t == s.tasks[i]
  IN IF t.pc = "sync_cleared"
     THEN { j \in 1..Len(t.list) : t.list[j].fireAt > s.now }
     ELSE { j \in t.i..Len(t.list) : t.list[j].fireAt > t.now }

\* SYNC_ALARMS resumed, its next dbPut (line 353) is rejected
syncPutRejected(s, i) ==
  [ s EXCEPT !.tasks[i].pc = "write_rejected", !.faults.n = @ + 1 ]

\* a message handler resumed with the rejection of the write it awaited
\* (lines 349, 353, 384, 396): nothing catches it, the async function ends
writeRejected(s, i) ==
  Finish([ s EXCEPT !.faults.escaped = @ \cup { s.tasks[i].k } ], i)

----------------------------------------------------------------------------
(* notificationclick.  An action string is kept as its parts between ':'. *)

NaN == -1
\* parseInt on the numerals the actions carry
ParseInt(str) ==
  CASE str = "1" -> 1 [] str = "5" -> 5 [] str = "10" -> 10 [] OTHER -> NaN

\* parts[n - 1] of action.split(':'), "" when there is no such part
Part(act, n) == IF n <= Len(act) THEN act[n] ELSE ""

\* action.startsWith(prefix + ':')
StartsWith(act, prefix) == Len(act) >= 2 /\ act[1] = prefix

\* the branch the handler takes for a notification of this tag and action
ClickBranch(tag, act) ==
  CASE tag = STATUS_TAG \/ act = << "open" >> -> "status"
    [] OTHER ->
       CASE StartsWith(act, "snooze") -> "snooze"
         [] act \in { << "snooze5" >>, << "snooze10" >> } -> "legacy"
         [] StartsWith(act, "habit") -> "habit"
         [] act = << "done" >> -> "done"
         [] OTHER -> "default"

Message(type, tag, mins, habitKey, habitVal) ==
  [ type |-> type, tag |-> tag, mins |-> mins, habitKey |-> habitKey,
    habitVal |-> habitVal ]

\* the message the branch builds
ClickMessage(tag, act) ==
  LET b == ClickBranch(tag, act)
      n == ParseInt(Part(act, 3))
  IN CASE b = "snooze" ->
            Message("SNOOZED", tag, IF n = NaN THEN 5 ELSE n, "", 0)
       [] b = "legacy" ->
            Message("SNOOZED", tag, IF act = << "snooze5" >> THEN 5 ELSE 10, "", 0)
       [] b = "habit" -> Message("HABIT_ACTION", "", 0, Part(act, 2), n)
       [] b = "done" -> Message("NOTIFICATION_CLICK", tag, 0, "", 0)

\* resumed with clients.matchAll(): post to the first client, or open a
\* window (the habit action travels in its URL)
clickMatched(s, i) ==
  LET t == s.tasks[i]
      b == ClickBranch(t.tag, t.act)
  IN IF t.seen
     THEN Finish([ s EXCEPT !.inbox = IF b \in { "snooze", "legacy", "habit", "done" }
                                       THEN Append(@, ClickMessage(t.tag, t.act))
                                       ELSE @ ], i)
     ELSE [ s EXCEPT !.windows = 1,
                     !.inbox = IF b = "habit"
                               THEN Append(@, ClickMessage(t.tag, t.act))
                               ELSE @,
                     !.tasks[i].pc = "click_opened" ]

\* resumed after clients.openWindow
clickOpened(s, i) == Finish(s, i)

----------------------------------------------------------------------------
(* notificationclose: the repost loop of the status notification *)

RepostDelays == << 300, 600, 1200, 2000, 3000, 4000, 5000, 6000, 7000, 8000 >>

\* await new Promise(r => setTimeout(r, delay)) for attempt n
rpWait(s, i, n) ==
  [ s EXCEPT !.tasks[i].pc = "rp_wait", !.tasks[i].i = n,
             !.timers = @ \cup { Timer("repost", "", s.now + RepostDelays[n], i) } ]

\* resumed with the preference: stop if it is false, else getNotifications
rpPref(s, i) ==
  IF s.tasks[i].seen
  THEN Finish(s, i)
  ELSE [ s EXCEPT !.tasks[i].pc = "rp_existing", !.tasks[i].seen = s.statusShown ]

\* resumed with the visible status notifications: stop if there is one,
\* else call updateStatusNotification
rpExisting(s, i) ==
  IF s.tasks[i].seen
  THEN Finish(s, i)
  ELSE usnEnter([ s EXCEPT !.tasks[i].calls = @ + 1 ], i)

\* a loop that would go on with its last delay once the delays are used up
rpCheckNeverGivesUp(s, i) ==
  LET t == s.tasks[i]
  IN IF t.seen THEN Finish(s, i)
     ELSE rpWait([ s EXCEPT !.tasks[i].seen = FALSE ], i,
                 IF t.i < Len(RepostDelays) THEN t.i + 1 ELSE t.i)
\* resumed with the check: stop if the notification shows, else next delay
rpCheck(s, i) ==
  LET t == s.tasks[i]
  IN IF t.seen \/ t.i >= Len(RepostDelays)
     THEN Finish(s, i)
     ELSE rpWait([ s EXCEPT !.tasks[i].seen = FALSE ], i, t.i + 1)

----------------------------------------------------------------------------
(* One resumption of the handler in slot i *)

Resume(s, i) ==
  LET pc == s.tasks[i].pc
  IN CASE pc = "cda_loop" -> cdaLoop(s, i)
       [] pc = "cda_shown" -> cdaShown(s, i)
       [] pc = "unw_got" -> unwGot(s, i)
       [] pc = "unw_put" -> unwPut(s, i)
       [] pc = "unw_del" -> unwDel(s, i)
       [] pc = "usn_pref" -> usnPref(s, i)
       [] pc = "usn_got" -> usnGot(s, i)
       [] pc = "usn_shown" -> usnShown(s, i)
       [] pc = "csn_got" -> csnGot(s, i)
       [] pc = "rearm_got" -> rearmGot(s, i)
       [] pc = "tick_rem" -> tickRem(s, i)
       [] pc = "tick_fetched" -> tickFetched(s, i)
       [] pc = "snooze_deleted" -> snoozeDeleted(s, i)
       [] pc = "snooze_shown" -> snoozeShown(s, i)
       [] pc = "schedule_stored" -> scheduleStored(s, i)
       [] pc = "cancel_deleted" -> cancelDeleted(s, i)
       [] pc = "sync_cleared" -> syncCleared(s, i)
       [] pc = "sync_loop" -> syncLoop(s, i)
       [] pc = "show_shown" -> showShown(s, i)
       [] pc = "pref_stored" -> prefStored(s, i)
       [] pc = "click_matched" -> clickMatched(s, i)
       [] pc = "click_opened" -> clickOpened(s, i)
       [] pc = "write_rejected" -> writeRejected(s, i)
       [] pc = "rp_pref" -> rpPref(s, i)
       [] pc = "rp_existing" -> rpExisting(s, i)
       [] pc = "rp_check" -> rpCheck(s, i)
       [] pc = "registered" -> registered(s, i)
       [] pc = "activate_keys" -> activateKeys(s, i)
       [] pc = "activate_deleted" -> activateDeleted(s, i)
       [] pc = "activate_claimed" -> activateClaimed(s, i)

CdaPcs == { "cda_loop", "cda_shown" }
UnwPcs == { "unw_got", "unw_put", "unw_del" }
UsnPcs == { "usn_pref", "usn_got", "usn_shown", "csn_got" }

Busy == { i \in Slots : tasks[i].k # "idle" }
\* the slot a new handler takes; it may start while another handler is in
\* flight at most lim times in a run
FreeSlot(lim) ==
  IF Busy = { } \/ (Busy # Slots /\ overlaps < lim)
  THEN { MinOf(Slots \ Busy) } ELSE { }

----------------------------------------------------------------------------
(* Actions.  lim: how often a handler may start while another is in flight *)

\* a handler in flight runs from one await to the next
StepScan(i) ==
  /\ tasks[i].pc \in CdaPcs
  /\ Becomes({ Resume(State, i) })

StepNextWake(i) ==
  /\ tasks[i].pc \in UnwPcs
  /\ Becomes({ Resume(State, i) })

StepStatus(i) ==
  /\ tasks[i].pc \in UsnPcs
  /\ Becomes({ Resume(State, i) })

StepHandler(i) ==
  /\ tasks[i].k # "idle"
  /\ tasks[i].pc \notin CdaPcs \cup UnwPcs \cup UsnPcs \cup { "rp_wait" }
  /\ Becomes({ Resume(State, i) })

\* a scan in flight is resumed, reaches a due alarm, and the host rejects
\* the showNotification call
StepScanRejected(i) ==
  /\ tasks[i].pc = "cda_loop"
  /\ faults.n < MaxFaults
  /\ cdaTodo(State, i) # { }
  /\ LET t == tasks[i]
     IN IsDue(t.now - t.alarms[MinOf(cdaTodo(State, i))].fireAt)
  /\ Becomes({ cdaLoopRejected(State, i) })

\* 'push' event (and 'periodicsync': the same calls in the same order)
ScanEvent(lim, kind) ==
  \E i \in FreeSlot(lim) :
    Becomes({ cdaEnter(SetTask(State, i, NewTask(kind)), i) })

Push(lim) == ScanEvent(lim, "push")
PeriodicSync(lim) == ScanEvent(lim, "periodicsync")

\* 'activate' event: caches.keys()
Activate(lim) ==
  \E i \in FreeSlot(lim) :
    LET t == [ NewTask("activate") EXCEPT !.pc = "activate_keys" ]
    IN Becomes({ SetTask(State, i, t) })

\* 'fetch' event: rearmOnWakeup()
Fetch(lim) ==
  \E i \in FreeSlot(lim) :
    Becomes({ rearmEnter(SetTask(State, i, NewTask("fetch")), i) })

\* message START_KEEPALIVE
StartKeepAliveMsg(lim) ==
  \E i \in FreeSlot(lim) :
    Becomes({ rearmEnter(startKeepAlive(SetTask(State, i, NewTask("startka"))), i) })

\* message SCHEDULE_ALARM {tag, delay, ...}
ScheduleAlarm(lim, tags, delays) ==
  /\ nextId <= MaxAlarms
  /\ \E i \in FreeSlot(lim), tag \in tags, delay \in delays :
       LET s == State
           fireAt == s.now + delay
           alarm == [ tag |-> tag, fireAt |-> fireAt, id |-> nextId ]
           t == [ NewTask("schedule") EXCEPT !.pc = "schedule_stored",
                                              !.tag = tag, !.id = nextId ]
           u == setSnoozeTimer(s, tag, delay, nextId)
       IN Becomes({ [ SetTask(u, i, t) EXCEPT !.store = dbPut(@, alarm),
                                              !.nextId = @ + 1 ] })

\* a CANCEL_ALARM that would clear the snooze timer and leave the record
CancelAlarmKeepsRecord(lim, tags, track) ==
  \E i \in FreeSlot(lim), tag \in tags :
    LET s == State
        t == [ NewTask("cancel") EXCEPT !.pc = "cancel_deleted", !.tag = tag ]
        early == { a \in s.store : a.tag = tag /\ a.fireAt > s.now }
    IN Becomes({ [ SetTask(s, i, t) EXCEPT
                     !.timers = @ \ s.snoozeTimers[tag],
                     !.snoozeTimers[tag] = { },
                     !.cancelled = @ \cup early,
                     !.cancelMark[tag] = IF track THEN s.nextId ELSE @ ] })
\* message CANCEL_ALARM {tag}; track: the run records in cancelMark when the
\* message arrived
CancelAlarm(lim, tags, track) ==
  \E i \in FreeSlot(lim), tag \in tags :
    LET s == State
        t == [ NewTask("cancel") EXCEPT !.pc = "cancel_deleted", !.tag = tag ]
        early == { a \in s.store : a.tag = tag /\ a.fireAt > s.now }
    IN Becomes({ [ SetTask(s, i, t) EXCEPT
                     !.timers = @ \ s.snoozeTimers[tag],
                     !.snoozeTimers[tag] = { },
                     !.store = dbDelete(@, tag),
                     !.cancelled = @ \cup early,
                     !.cancelMark[tag] = IF track THEN s.nextId ELSE @ ] })

\* message SCHEDULE_ALARM whose dbPut (line 384) is rejected
ScheduleAlarmRejected(lim, tags, delays) ==
  /\ nextId <= MaxAlarms
  /\ faults.n < MaxFaults
  /\ \E i \in FreeSlot(lim), tag \in tags, delay \in delays :
       LET s == State
           t == [ NewTask("schedule") EXCEPT !.pc = "write_rejected",
                                              !.tag = tag, !.id = nextId ]
           u == setSnoozeTimer(s, tag, delay, nextId)
       IN Becomes({ [ SetTask(u, i, t) EXCEPT !.nextId = @ + 1,
                                              !.faults.n = @ + 1 ] })

\* message CANCEL_ALARM whose dbDelete (line 396) is rejected
CancelAlarmRejected(lim, tags) ==
  /\ faults.n < MaxFaults
  /\ \E i \in FreeSlot(lim), tag \in tags :
       LET s == State
           t == [ NewTask("cancel") EXCEPT !.pc = "write_rejected", !.tag = tag ]
       IN Becomes({ [ SetTask(s, i, t) EXCEPT
                        !.timers = @ \ s.snoozeTimers[tag],
                        !.snoozeTimers[tag] = { },
                        !.faults.n = @ + 1 ] })

\* the lists SYNC_ALARMS is sent with: one or two entries
SyncEntries(tags) == { [ tag |-> tag, at |-> at ] : tag \in tags, at \in { 1, 2 } }
SyncLists(tags) ==
  { << e >> : e \in SyncEntries(tags) }
    \cup { << e, f >> : e \in SyncEntries(tags), f \in SyncEntries(tags) }

\* message SYNC_ALARMS {alarms}
SyncAlarms(lim, tags) ==
  \E i \in FreeSlot(lim), l \in SyncLists(tags) :
    /\ nextId + Len(l) - 1 <= MaxAlarms
    /\ LET s == State
           list == [ j \in 1..Len(l) |->
                       [ tag |-> l[j].tag, fireAt |-> Timeline[l[j].at] + 5000,
                         id |-> nextId + j - 1 ] ]
           t == [ NewTask("sync") EXCEPT !.pc = "sync_cleared", !.list = list ]
       IN Becomes({ [ SetTask(s, i, t) EXCEPT !.store = dbClear(@),
                                              !.nextId = @ + Len(l) ] })

\* message SYNC_ALARMS whose dbClear (line 349) is rejected
SyncAlarmsRejected(lim, tags) ==
  /\ faults.n < MaxFaults
  /\ \E i \in FreeSlot(lim), l \in SyncLists(tags) :
       /\ nextId + Len(l) - 1 <= MaxAlarms
       /\ LET s == State
              list == [ j \in 1..Len(l) |->
                          [ tag |-> l[j].tag, fireAt |-> Timeline[l[j].at] + 5000,
                            id |-> nextId + j - 1 ] ]
              t == [ NewTask("sync") EXCEPT !.pc = "write_rejected", !.list = list ]
          IN Becomes({ [ SetTask(s, i, t) EXCEPT !.nextId = @ + Len(l),
                                                 !.faults.n = @ + 1 ] })

\* a SYNC_ALARMS handler is resumed and its next dbPut is rejected
StepSyncRejected(i) ==
  /\ tasks[i].pc \in { "sync_cleared", "sync_loop" }
  /\ faults.n < MaxFaults
  /\ syncTodo(State, i) # { }
  /\ Becomes({ syncPutRejected(State, i) })

\* message SHOW_ALARM {title, body, tag, actions, data}
ShowAlarm(lim, tags) ==
  /\ shows < MaxShows
  /\ \E i \in FreeSlot(lim), tag \in tags :
       LET t == [ NewTask("show") EXCEPT !.pc = "show_shown", !.tag = tag ]
       IN Becomes({ [ SetTask(State, i, t) EXCEPT
                        !.shows = @ + 1,
                        !.statusShown = IF tag = STATUS_TAG THEN TRUE ELSE @ ] })

\* message SET_STATUS_NOTIF {enabled}
SetStatusNotif(lim, values) ==
  \E i \in FreeSlot(lim), enabled \in values :
    LET t == [ NewTask("setpref") EXCEPT !.pc = "pref_stored",
                                         !.phase = IF enabled THEN 1 ELSE 0 ]
    IN Becomes({ [ SetTask(State, i, t) EXCEPT
                     !.pref = IF enabled THEN "true" ELSE "false" ] })

\* the actions the notifications offer, and a tap on the body
ClickActions ==
  { << >>, << "open" >>, << "dismiss" >>, << "done" >>, << "snooze5" >>,
    << "snooze10" >>, << "snooze", "0", "10" >>, << "snooze", "0" >>,
    << "habit", "water", "1" >> }

\* 'notificationclick' on a notification of this tag, with this action
NotificationClick(lim, tags, acts) ==
  /\ Len(inbox) < MaxClicks
  /\ \E i \in FreeSlot(lim), tag \in tags, act \in acts :
       /\ tag = STATUS_TAG => statusShown
       /\ LET s == State
              t == [ NewTask("click") EXCEPT !.pc = "click_matched", !.tag = tag,
                                             !.act = act, !.seen = (s.windows > 0) ]
          IN Becomes({ [ SetTask(s, i, t) EXCEPT
                           !.statusShown = IF tag = STATUS_TAG THEN FALSE ELSE @ ] })

\* the user opens, or closes, the page while no handler is in flight
OpenPage ==
  /\ Busy = { } /\ windows = 0
  /\ windows' = 1
  /\ UNCHANGED << clock, store, nextWake, pref, statusShown, timers,
                  nextWakeTimer, keepAliveTimer, keepAliveRunning, snoozeTimers,
                  tasks, notified, cancelled, nextId, overlaps, kills,
                  cancelMark, shows, inbox, faults >>

ClosePage ==
  /\ Busy = { } /\ windows = 1
  /\ windows' = 0
  /\ UNCHANGED << clock, store, nextWake, pref, statusShown, timers,
                  nextWakeTimer, keepAliveTimer, keepAliveRunning, snoozeTimers,
                  tasks, notified, cancelled, nextId, overlaps, kills,
                  cancelMark, shows, inbox, faults >>

\* 'notificationclose' of a notification of this tag: the user or the host
\* removed it from the tray
NotificationClose(lim, tags) ==
  \E i \in FreeSlot(lim), tag \in tags :
    IF tag # STATUS_TAG
    THEN UNCHANGED vars
    ELSE /\ statusShown
         /\ clock <= Len(ScanTimeline)
         /\ LET s == [ State EXCEPT !.statusShown = FALSE ]
            IN Becomes({ rpWait(SetTask(s, i, NewTask("close")), i, 1) })

\* the timer of a wait of the repost loop fires: dbGet('meta', 'statusNotifEnabled')
RepostTimerFires ==
  \E i \in Slots, tm \in timers :
    /\ tm.slot = "repost" /\ tm.id = i
    /\ tasks[i].pc = "rp_wait"
    /\ Timeline[clock] >= tm.deadline
    /\ Becomes({ [ State EXCEPT !.timers = @ \ { tm },
                                !.tasks[i].pc = "rp_pref",
                                !.tasks[i].seen = (pref = "false") ] })

\* a handler in flight is resumed and the host rejects the showNotification
\* it then calls for the status notification
StepStatusRejected(i) ==
  /\ tasks[i].pc = "usn_got"
  /\ \E a \in Range(tasks[i].got) : a.fireAt > Timeline[clock]
  /\ Becomes({ usnGotRejected(State, i) })

\* the next-wake timer fires
NextWakeFires(lim) ==
  \E i \in FreeSlot(lim), tm \in timers :
    /\ tm.slot = "wake"
    /\ Timeline[clock] >= tm.deadline
    /\ LET s == [ State EXCEPT !.timers = @ \ { tm }, !.nextWakeTimer = { } ]
       IN Becomes({ cdaEnter(SetTask(s, i, NewTask("wake")), i) })

\* the keep-alive tick fires
TickFires(lim) ==
  \E i \in FreeSlot(lim), tm \in timers :
    /\ tm.slot = "tick"
    /\ Timeline[clock] >= tm.deadline
    /\ LET s == [ State EXCEPT !.timers = @ \ { tm }, !.keepAliveTimer = { } ]
       IN IF ~s.keepAliveRunning
          THEN Becomes({ s })
          ELSE Becomes({ cdaEnter(SetTask(s, i, NewTask("tick")), i) })

\* a snooze timer fires
SnoozeFires(lim) ==
  \E i \in FreeSlot(lim), tm \in timers :
    /\ tm.slot = "snooze"
    /\ Timeline[clock] >= tm.deadline
    /\ LET s == [ State EXCEPT !.timers = @ \ { tm }, !.snoozeTimers[tm.tag] = { } ]
           t == [ NewTask("snooze") EXCEPT !.pc = "snooze_deleted",
                                            !.tag = tm.tag, !.id = tm.id ]
       IN Becomes({ [ SetTask(s, i, t) EXCEPT !.store = dbDelete(@, tm.tag) ] })

\* time passes, up to the instant Timeline[last]
Advance(last) ==
  /\ clock < last
  /\ clock' = clock + 1
  /\ UNCHANGED << store, nextWake, pref, statusShown, timers, nextWakeTimer,
                  keepAliveTimer, keepAliveRunning, snoozeTimers, tasks,
                  notified, cancelled, nextId, overlaps, kills, cancelMark,
                  shows, windows, inbox, faults >>

\* time passes while no handler is in flight
AdvanceIdle == Busy = { } /\ Advance(Len(ScanTimeline))

\* time passes while every handler in flight waits for a timer that is not
\* due yet: a wait ends before the instant after the first one it is due at
AdvanceWaiting ==
  /\ \A i \in Slots : tasks[i].pc \in { "idle", "rp_wait" }
  /\ \A tm \in timers : tm.slot = "repost" => tm.deadline > Timeline[clock]
  /\ Advance(Len(Timeline))

\* the host kills the process: memory is lost, the stores and the tray are kept
KillProcess ==
  /\ kills < MaxKills
  /\ (timers # { } \/ Busy # { } \/ keepAliveRunning)
  /\ kills' = kills + 1
  /\ timers' = { }
  /\ nextWakeTimer' = { }
  /\ keepAliveTimer' = { }
  /\ keepAliveRunning' = FALSE
  /\ snoozeTimers' = [ tag \in AllTags |-> { } ]
  /\ tasks' = [ i \in Slots |-> IdleTask ]
  /\ UNCHANGED << clock, store, nextWake, pref, statusShown, notified,
                  cancelled, nextId, overlaps, cancelMark, shows, windows,
                  inbox, faults >>

----------------------------------------------------------------------------
Init ==
  /\ clock = 1
  /\ store = { }
  /\ nextWake = { }
  /\ pref = "unset"
  /\ statusShown = FALSE
  /\ timers = { }
  /\ nextWakeTimer = { }
  /\ keepAliveTimer = { }
  /\ keepAliveRunning = FALSE
  /\ snoozeTimers = [ tag \in AllTags |-> { } ]
  /\ tasks = [ i \in Slots |-> IdleTask ]
  /\ notified = [ id \in Ids |-> [ scan |-> 0, snooze |-> 0 ] ]
  /\ cancelled = { }
  /\ nextId = 1
  /\ overlaps = 0
  /\ kills = 0
  /\ cancelMark = [ tag \in AllTags |-> 0 ]
  /\ shows = 0
  /\ windows = 0
  /\ inbox = << >>
  /\ faults = NoFaults

\* handlers run one at a time, each to completion: no interleaving
NextSeq ==
  \/ \E i \in Slots : StepScan(i)
  \/ \E i \in Slots : StepNextWake(i)
  \/ \E i \in Slots : StepStatus(i)
  \/ \E i \in Slots : StepHandler(i)
  \/ Push(0)
  \/ Fetch(0)
  \/ StartKeepAliveMsg(0)
  \/ ScheduleAlarm(0, RealTags, Delays)
  \/ ScheduleAlarm(0, { STATUS_TAG }, { 0 })
  \/ CancelAlarm(0, RealTags, FALSE)
  \/ SyncAlarms(0, RealTags)
  \/ NextWakeFires(0)
  \/ TickFires(0)
  \/ SnoozeFires(0)
  \/ AdvanceIdle

SpecSeq == Init /\ [][NextSeq]_vars

\* handlers interleave at their awaits
Next ==
  \/ \E i \in Slots : StepScan(i)
  \/ \E i \in Slots : StepNextWake(i)
  \/ \E i \in Slots : StepStatus(i)
  \/ \E i \in Slots : StepHandler(i)
  \/ Push(MaxOverlaps)
  \/ ScheduleAlarm(MaxOverlaps, { "a" }, { 5000 })
  \/ CancelAlarm(MaxOverlaps, { "a" }, FALSE)
  \/ NextWakeFires(MaxOverlaps)
  \/ TickFires(MaxOverlaps)
  \/ SnoozeFires(MaxOverlaps)
  \/ Advance(3)

Spec == Init /\ [][Next]_vars

\* handlers run one at a time; the host may kill the process between two steps
NextKill ==
  \/ \E i \in Slots : StepScan(i)
  \/ \E i \in Slots : StepNextWake(i)
  \/ \E i \in Slots : StepStatus(i)
  \/ \E i \in Slots : StepHandler(i)
  \/ Activate(0)
  \/ PeriodicSync(0)
  \/ Push(0)
  \/ Fetch(0)
  \/ ScheduleAlarm(0, RealTags, { 5000 })
  \/ NextWakeFires(0)
  \/ TickFires(0)
  \/ SnoozeFires(0)
  \/ Advance(Len(ScanTimeline))
  \/ KillProcess

SpecKill == Init /\ [][NextKill]_vars

\* SYNC_ALARMS, SCHEDULE_ALARM and CANCEL_ALARM of one tag interleave at their
\* awaits, at one instant
NextCancel ==
  \/ \E i \in Slots : StepNextWake(i)
  \/ \E i \in Slots : StepStatus(i)
  \/ \E i \in Slots : StepHandler(i)
  \/ ScheduleAlarm(MaxOverlaps, { "a", "b" }, { 5000 })
  \/ CancelAlarm(MaxOverlaps, { "a" }, TRUE)
  \/ SyncAlarms(MaxOverlaps, { "a" })

SpecCancel == Init /\ [][NextCancel]_vars

\* the user acts on notifications, with the page open or closed; handlers
\* run one at a time
NextClick ==
  \/ \E i \in Slots : StepNextWake(i)
  \/ \E i \in Slots : StepStatus(i)
  \/ \E i \in Slots : StepHandler(i)
  \/ ScheduleAlarm(0, { "a" }, { 5000 })
  \/ NotificationClick(0, { "a", STATUS_TAG }, ClickActions)
  \/ OpenPage
  \/ ClosePage

SpecClick == Init /\ [][NextClick]_vars

\* SHOW_ALARM among SCHEDULE_ALARM and push scans; handlers run one at a time
NextShow ==
  \/ \E i \in Slots : StepScan(i)
  \/ \E i \in Slots : StepNextWake(i)
  \/ \E i \in Slots : StepStatus(i)
  \/ \E i \in Slots : StepHandler(i)
  \/ Push(0)
  \/ ScheduleAlarm(0, RealTags, Delays)
  \/ ShowAlarm(0, RealTags)
  \/ AdvanceIdle

SpecShow == Init /\ [][NextShow]_vars

\* SET_STATUS_NOTIF and SCHEDULE_ALARM interleave at their awaits
NextStatus ==
  \/ \E i \in Slots : StepNextWake(i)
  \/ \E i \in Slots : StepStatus(i)
  \/ \E i \in Slots : StepHandler(i)
  \/ ScheduleAlarm(MaxOverlaps, { "a" }, { 5000 })
  \/ SetStatusNotif(MaxOverlaps, BOOLEAN)

SpecStatus == Init /\ [][NextStatus]_vars

\* the status notification is removed while alarms are scheduled a long
\* time ahead or none is; the host may reject every redisplay
NextRepost ==
  \/ \E i \in Slots : StepNextWake(i)
  \/ \E i \in Slots : StepStatus(i)
  \/ \E i \in Slots : StepHandler(i)
  \/ \E i \in Slots : StepStatusRejected(i)
  \/ (clock = 1 /\ ScheduleAlarm(0, { "a" }, { 5000, LongDelay }))
  \/ SetStatusNotif(MaxOverlaps, BOOLEAN)
  \/ NotificationClose(0, { "a", STATUS_TAG })
  \/ RepostTimerFires
  \/ AdvanceWaiting

\* the timers of the repost loop fire and its operations complete
SpecRepost ==
  /\ Init /\ [][NextRepost]_vars
  /\ WF_vars(AdvanceWaiting)
  /\ WF_vars(RepostTimerFires)
  /\ \A i \in Slots : WF_vars(StepStatus(i)) /\ WF_vars(StepHandler(i))

\* handlers run one at a time; the store may reject a write of a message
\* handler, the host a display call of a scan
NextFault ==
  \/ \E i \in Slots : StepScan(i)
  \/ \E i \in Slots : StepNextWake(i)
  \/ \E i \in Slots : StepStatus(i)
  \/ \E i \in Slots : StepHandler(i)
  \/ \E i \in Slots : StepSyncRejected(i)
  \/ \E i \in Slots : StepScanRejected(i)
  \/ Push(0)
  \/ ScheduleAlarm(0, RealTags, Delays)
  \/ ScheduleAlarmRejected(0, RealTags, Delays)
  \/ CancelAlarm(0, { "a" }, FALSE)
  \/ CancelAlarmRejected(0, { "a" })
  \/ SyncAlarms(0, { "a" })
  \/ SyncAlarmsRejected(0, { "a" })
  \/ AdvanceIdle

SpecFault == Init /\ [][NextFault]_vars

\* time passes while no handler is in flight, up to the instant at which a
\* tick armed at the third instant is due
AdvanceLive == Busy = { } /\ Advance(Len(ScanTimeline) + 3)

\* alarms are persisted at the first three instants; SCHEDULE_ALARM may
\* arrive while another handler is in flight; time passes between handlers;
\* the process is not killed and no operation fails
NextLive ==
  \/ \E i \in Slots : StepScan(i)
  \/ \E i \in Slots : StepNextWake(i)
  \/ \E i \in Slots : StepStatus(i)
  \/ \E i \in Slots : StepHandler(i)
  \/ (clock <= 3 /\ ScheduleAlarm(MaxOverlaps, { "a" }, { 5000 }))
  \/ (clock <= 2 /\ SyncAlarms(0, { "a", STATUS_TAG }))
  \/ NextWakeFires(0)
  \/ TickFires(0)
  \/ SnoozeFires(0)
  \/ AdvanceLive

\* every handler in flight goes on, time passes, and a timer that is due
\* again and again does fire
SpecLive ==
  /\ Init /\ [][NextLive]_vars
  /\ \A i \in Slots :
       /\ WF_vars(StepScan(i)) /\ WF_vars(StepNextWake(i))
       /\ WF_vars(StepStatus(i)) /\ WF_vars(StepHandler(i))
  /\ SF_vars(AdvanceLive)
  /\ SF_vars(NextWakeFires(0))
  /\ SF_vars(TickFires(0))
  /\ SF_vars(SnoozeFires(0))

----------------------------------------------------------------------------
(* Properties *)

\* the handler in slot i returns from checkDueAlarms in this step
ScanReturns(i) ==
  /\ tasks[i].k \in ScanKinds
  /\ tasks[i].pc \in { "unw_put", "unw_del" }
  /\ tasks'[i] # tasks[i]

\* the handler in slot i has finished the loop of checkDueAlarms
ScanLoopDone(i) == tasks[i].k \in ScanKinds /\ tasks[i].pc = "unw_got"

InGrace(a, now) == now - a.fireAt >= 0 /\ now - a.fireAt <= 600000
PastGrace(a, now) == now - a.fireAt > 600000
NotYetDue(a, now) == a.fireAt > now

\* C1 as stated: when a scan that runs alone returns, every alarm it read
\* that was due within the grace window has been notified exactly once and
\* is no longer stored.
C1_DueAlarmFiredOnceAndRemoved ==
  [][ \A i \in Slots : ScanReturns(i) =>
        \A a \in Range(tasks[i].alarms) :
          InGrace(a, tasks[i].now) =>
            a \notin store' /\ notified'[a.id].scan = 1 ]_vars

\* C1 amended: the same for every alarm whose tag is not the status tag
\* 'alarm-watcher', which the scan skips.
C1_DueRealAlarmFiredOnceAndRemoved ==
  [][ \A i \in Slots : ScanReturns(i) =>
        \A a \in Range(tasks[i].alarms) :
          (InGrace(a, tasks[i].now) /\ a.tag # "alarm-watcher") =>
            a \notin store' /\ notified'[a.id].scan = 1 ]_vars

C1_Witness ==
  \E i \in Slots : \E a \in Range(tasks[i].alarms) :
    /\ ScanLoopDone(i)
    /\ InGrace(a, tasks[i].now) /\ a.tag # "alarm-watcher"
    /\ a \notin store /\ notified[a.id].scan = 1

\* C2 as stated: when a scan returns, every alarm it read that was older
\* than the grace window has not been notified and is no longer stored.
C2_LateAlarmDroppedSilently ==
  [][ \A i \in Slots : ScanReturns(i) =>
        \A a \in Range(tasks[i].alarms) :
          PastGrace(a, tasks[i].now) =>
            a \notin store' /\ notified'[a.id].scan = 0 ]_vars

\* C2 amended: the same for every alarm whose tag is not the status tag.
C2_LateRealAlarmDroppedSilently ==
  [][ \A i \in Slots : ScanReturns(i) =>
        \A a \in Range(tasks[i].alarms) :
          (PastGrace(a, tasks[i].now) /\ a.tag # "alarm-watcher") =>
            a \notin store' /\ notified'[a.id].scan = 0 ]_vars

C2_Witness ==
  \E i \in Slots : \E a \in Range(tasks[i].alarms) :
    /\ ScanLoopDone(i)
    /\ PastGrace(a, tasks[i].now) /\ a.tag # "alarm-watcher"
    /\ a \notin store /\ notified[a.id].scan = 0

\* C3: when a scan that runs alone returns, every alarm it read with
\* fireAt > now is still stored, the same record, and was not notified.
C3_FutureAlarmUntouched ==
  [][ \A i \in Slots : ScanReturns(i) =>
        \A a \in Range(tasks[i].alarms) :
          NotYetDue(a, tasks[i].now) =>
            a \in store' /\ notified'[a.id].scan = 0 ]_vars

C3_Witness ==
  \E i \in Slots : \E a \in Range(tasks[i].alarms) :
    /\ ScanLoopDone(i)
    /\ NotYetDue(a, tasks[i].now)
    /\ a \in store /\ notified[a.id].scan = 0

\* C4: scans that run one after the other notify an alarm at most once: no
\* step notifies, by a scan, an alarm that a scan has already notified.
C4_SecondScanSilent ==
  [][ \A id \in Ids :
        notified[id].scan >= 1 => notified'[id].scan = notified[id].scan ]_vars

\* a second scan is in flight, after a first one has consumed an alarm
C4_Witness ==
  \E i \in Slots : \E id \in Ids :
    /\ tasks[i].k \in ScanKinds /\ tasks[i].pc = "unw_got"
    /\ notified[id].scan = 1
    /\ \A a \in Range(tasks[i].alarms) : a.id # id

\* C5: no two scans in flight have both called showNotification for the
\* same stored alarm.
C5_NoTwoScansFireSameAlarm ==
  \A i, j \in Slots :
    (i # j /\ tasks[i].pc = "cda_shown" /\ tasks[j].pc = "cda_shown") =>
      tasks[i].alarms[tasks[i].i].id # tasks[j].alarms[tasks[j].i].id

\* C6: whatever the kills, the scans notify an alarm at most once.
C6_ScanFiresOnceDespiteKills ==
  \A id \in Ids : notified[id].scan <= 1

SnoozeTimersOf(tag) == { tm \in timers : tm.slot = "snooze" /\ tm.tag = tag }

\* C7: the store never holds two records of one tag, nor are two snooze
\* timers outstanding for one tag; and from its dbPut until a SCHEDULE_ALARM
\* handler completes, the one record of its tag is the one it wrote and the
\* one snooze timer of its tag is the one it armed, due at that fireAt.
C7_OneAlarmPerTag ==
  /\ \A tag \in AllTags :
       /\ Cardinality({ a \in store : a.tag = tag }) <= 1
       /\ Cardinality(SnoozeTimersOf(tag)) <= 1
  /\ \A i \in Slots : tasks[i].k = "schedule" =>
       \E a \in store : \E tm \in timers :
         /\ { x \in store : x.tag = tasks[i].tag } = { a }
         /\ SnoozeTimersOf(tasks[i].tag) = { tm }
         /\ a.id = tasks[i].id /\ tm.id = tasks[i].id
         /\ tm.deadline = a.fireAt

\* a second SCHEDULE_ALARM of the tag of alarm 1 is about to complete: alarm
\* 1 was neither notified nor cancelled nor expired, and is not stored
C7_Witness ==
  \E i \in Slots :
    /\ tasks[i].k = "schedule" /\ tasks[i].id = 2 /\ tasks[i].pc \in UsnPcs
    /\ clock = 1
    /\ notified[1] = [ scan |-> 0, snooze |-> 0 ]
    /\ cancelled = { }
    /\ \A a \in store : a.id # 1
    /\ \E a \in store : a.id = 2 /\ a.fireAt = Timeline[1] + 5000

\* the value the spec gives meta['nextWake']: the earliest fireAt > now of
\* the stored alarms (the status tag apart), absent when there is none
ExpectedNextWake(alarms, now) ==
  LET future == { a.fireAt : a \in { x \in alarms : x.fireAt > now /\ x.tag # "alarm-watcher" } }
  IN IF future = { } THEN { } ELSE { MinOf(future) }

\* C8: when the last handler in flight completes, meta['nextWake'] is the
\* earliest future fireAt in the store, or absent.
C8_NextWakeIsEarliestFuture ==
  [][ (Busy # { } /\ \A i \in Slots : tasks'[i].k = "idle") =>
        nextWake' = ExpectedNextWake(store', Timeline[clock]) ]_vars

\* C9: a tick that finds no alarm left stops the keep-alive loop, and while
\* the loop is stopped no tick timer is outstanding.
C9_TickStopsWhenNothingPending ==
  /\ [](~keepAliveRunning =>
          keepAliveTimer = { } /\ \A tm \in timers : tm.slot # "tick")
  /\ [][ \A i \in Slots :
           (tasks[i].pc = "tick_rem" /\ tasks[i].got = << >> /\ tasks'[i] # tasks[i]) =>
             /\ ~keepAliveRunning'
             /\ keepAliveTimer' = { }
             /\ \A tm \in timers' : tm.slot # "tick" ]_vars

\* a tick that found the store empty, after an alarm was consumed, has
\* stopped the loop
C9_Witness ==
  \E i \in Slots :
    /\ tasks[i].k = "tick" /\ tasks[i].pc = "csn_got"
    /\ ~keepAliveRunning /\ store = { } /\ nextId > 1

\* C10: no scan notifies an alarm that CANCEL_ALARM deleted before its
\* fireAt.
C10_CancelledNeverFiredByScan ==
  \A a \in cancelled : notified[a.id].scan = 0

\* a scan that started at or after the fireAt of a cancelled alarm has run
\* its loop
C10_Witness ==
  \E i \in Slots : \E a \in cancelled :
    ScanLoopDone(i) /\ tasks[i].now >= a.fireAt

\* C11: once no handler is in flight, no alarm record and no snooze timer of
\* a tag stem from a message that arrived before the last CANCEL_ALARM of
\* that tag.
C11_CancelClearsTag ==
  Busy = { } =>
    \A tag \in AllTags :
      /\ \A a \in store : a.tag = tag => a.id >= cancelMark[tag]
      /\ \A tm \in snoozeTimers[tag] : tm.id >= cancelMark[tag]

\* what the spec has SYNC_ALARMS leave in the store: the entries of the list
\* with fireAt > now, the last one of each tag
ExpectedSync(list, now) ==
  { list[j] : j \in { n \in 1..Len(list) :
      /\ list[n].fireAt > now
      /\ \A m \in (n + 1)..Len(list) :
           ~(list[m].tag = list[n].tag /\ list[m].fireAt > now) } }

\* C12: when the loop of a SYNC_ALARMS handler that runs alone ends, the
\* store holds exactly the entries of the list with fireAt > now, the last
\* one of each tag, and no entry with fireAt <= now has been notified.
C12_SyncReplacesStore ==
  [][ \A i \in Slots :
        (/\ tasks[i].k = "sync"
         /\ tasks[i].pc \in { "sync_cleared", "sync_loop" }
         /\ tasks'[i].pc = "unw_got") =>
          /\ store' = ExpectedSync(tasks[i].list, Timeline[clock])
          /\ \A j \in 1..Len(tasks[i].list) :
               tasks[i].list[j].fireAt <= Timeline[clock] =>
                 notified'[tasks[i].list[j].id] = [ scan |-> 0, snooze |-> 0 ] ]_vars

\* a SYNC_ALARMS of two entries has ended its loop at 6000 ms with only its
\* first entry stored: the second had fireAt <= now
C12_Witness ==
  \E i \in Slots : \E a \in store :
    /\ tasks[i].k = "sync" /\ tasks[i].pc = "unw_got"
    /\ clock = 2 /\ nextId = 3
    /\ store = { a } /\ a.id = 1

\* C13: the snooze timer callback and the scans together notify an alarm at
\* most once.
C13_SnoozeAndScanFireOnce ==
  \A id \in Ids : notified[id].scan + notified[id].snooze <= 1

\* C14: when the process is killed while no alarm of the run is older than
\* the grace window, an alarm whose snooze timer callback is running and
\* which has not been notified is still stored after the kill.
C14_KillKeepsUnnotifiedAlarm ==
  [][ (kills' = kills + 1 /\ Timeline[clock] - (Timeline[1] + 5000) <= 600000) =>
        \A i \in Slots :
          (/\ tasks[i].k = "snooze" /\ tasks[i].pc = "snooze_deleted"
           /\ notified[tasks[i].id] = [ scan |-> 0, snooze |-> 0 ]) =>
            \E a \in store' : a.id = tasks[i].id ]_vars

\* C15: when _updateNextWakeMeta returns after finding no alarm with
\* fireAt > now, meta['nextWake'] is absent and no next-wake timer is armed.
C15_ResyncWithoutFutureDisarms ==
  [][ \A i \in Slots :
        (tasks[i].pc = "unw_del" /\ tasks'[i] # tasks[i]) =>
          /\ nextWake' = { }
          /\ nextWakeTimer' = { }
          /\ \A tm \in timers' : tm.slot # "wake" ]_vars

TimersOf(slot) == { tm \in timers : tm.slot = slot }

\* C16: the outstanding timers of each slot are exactly the timer its handle
\* holds, at most one: one next-wake timer, one tick timer, one snooze timer
\* per tag.
C16_OneTimerPerSlot ==
  /\ TimersOf("wake") = nextWakeTimer /\ Cardinality(nextWakeTimer) <= 1
  /\ TimersOf("tick") = keepAliveTimer /\ Cardinality(keepAliveTimer) <= 1
  /\ \A tag \in AllTags :
       /\ SnoozeTimersOf(tag) = snoozeTimers[tag]
       /\ Cardinality(snoozeTimers[tag]) <= 1

\* the next-wake timer is armed for 11000 at 6000 ms while alarm 1, due at
\* 6000, is stored and not notified: the timer armed for 6000 never ran
C16_Witness ==
  /\ Busy = { } /\ clock = 2
  /\ \E tm \in nextWakeTimer : tm.deadline = 11000
  /\ \E a \in store : a.id = 1 /\ a.fireAt = 6000
  /\ notified[1] = [ scan |-> 0, snooze |-> 0 ]

\* C17: a fetch event starts rearmOnWakeup's read only when no next-wake
\* timer is armed (else nothing changes); resumed with the persisted
\* nextWake, it arms and scans nothing when nextWake is absent, enters the
\* scan at once when nextWake <= now, and arms a timer due at nextWake when
\* nextWake > now.
C17_RearmOnWakeup ==
  [][ \A i \in Slots :
        /\ (tasks[i].k = "idle" /\ tasks'[i].k = "fetch") => nextWakeTimer = { }
        /\ (/\ tasks[i].k = "fetch" /\ tasks[i].pc = "rearm_got"
            /\ tasks'[i] # tasks[i] /\ kills' = kills) =>
             /\ nextWake = { } =>
                  /\ tasks'[i].k = "idle"
                  /\ UNCHANGED << timers, nextWakeTimer, store, notified >>
             /\ \A w \in nextWake :
                  /\ w <= Timeline[clock] =>
                       /\ tasks'[i].pc = "cda_loop"
                       /\ tasks'[i].now = Timeline[clock]
                       /\ tasks'[i].alarms = dbGetAll(store)
                       /\ UNCHANGED << timers, nextWakeTimer >>
                  /\ w > Timeline[clock] =>
                       /\ tasks'[i].k = "idle"
                       /\ nextWakeTimer' = { Timer("wake", "", w, 0) }
                       /\ timers' = timers \cup nextWakeTimer'
                       /\ UNCHANGED << store, notified >> ]_vars

\* after a kill, a fetch event has found nextWake passed and entered the scan
\* with the due alarm stored
C17_Witness ==
  \E i \in Slots :
    /\ kills = 1 /\ nextWakeTimer = { }
    /\ tasks[i].k = "fetch" /\ tasks[i].pc = "cda_loop"
    /\ \E a \in store : a.fireAt <= tasks[i].now

\* C18: the step in which a notificationclick handler acts on the clients it
\* found hands the page the message of its action (snooze, habit, done),
\* whether a window client existed or a window had to be opened.
C18_ClickMessageReachesPage ==
  [][ \A i \in Slots :
        (/\ tasks[i].pc = "click_matched" /\ tasks'[i] # tasks[i]
         /\ ClickBranch(tasks[i].tag, tasks[i].act) \in
               { "snooze", "legacy", "habit", "done" }) =>
          inbox' = Append(inbox, ClickMessage(tasks[i].tag, tasks[i].act)) ]_vars

\* C19: the SHOW_ALARM handler calls showNotification for its alarm once, on
\* arrival, and no step of it changes the alarms store, meta['nextWake'],
\* the timers or the keep-alive state.
C19_ShowAlarmPersistsNothing ==
  [][ \A i \in Slots :
        /\ (tasks[i].k = "idle" /\ tasks'[i].k = "show") =>
             /\ shows' = shows + 1
             /\ UNCHANGED << store, nextWake, timers, nextWakeTimer, snoozeTimers,
                             keepAliveTimer, keepAliveRunning, notified >>
        /\ (tasks[i].k = "show" /\ tasks'[i] # tasks[i]) =>
             /\ shows' = shows
             /\ UNCHANGED << store, nextWake, timers, nextWakeTimer, snoozeTimers,
                             keepAliveTimer, keepAliveRunning, notified >> ]_vars

\* a SHOW_ALARM handler is about to complete while an alarm is stored, its
\* timers are armed and the keep-alive loop runs
C19_Witness ==
  \E i \in Slots :
    /\ tasks[i].k = "show" /\ tasks[i].pc \in { "usn_shown", "csn_got" }
    /\ shows = 1
    /\ store # { } /\ nextWakeTimer # { } /\ keepAliveRunning
    /\ \E tag \in RealTags : snoozeTimers[tag] # { }

\* C20: once no handler is in flight, the status notification is not
\* displayed while the persisted preference is false.
C20_DisabledStatusNotShown ==
  (pref = "false" /\ Busy = { }) => ~statusShown

\* C21: a repost loop makes at most 10 attempts and at most 10 calls of
\* updateStatusNotification, one per attempt; its waits are 300 ms first,
\* 8 s last and at most 8 s; an attempt stops without a call when the
\* preference it read is false or a status notification is visible, stops after
\* its call when the notification is then visible, and the tenth attempt is
\* the last; and every loop started ends.
C21_RepostLoopBounded ==
  /\ [](\A i \in Slots : tasks[i].k = "close" =>
          /\ tasks[i].i \in 1..10
          /\ tasks[i].calls <= tasks[i].i /\ tasks[i].calls <= 10
          /\ tasks[i].calls >= tasks[i].i - 1)
  /\ [][ \A i \in Slots :
           (tasks[i].k = "close" /\ tasks'[i] # tasks[i]) =>
             /\ (tasks[i].pc = "rp_pref" /\ tasks[i].seen) =>
                  tasks'[i].k = "idle" /\ statusShown' = statusShown
             /\ (tasks[i].pc = "rp_existing" /\ tasks[i].seen) =>
                  tasks'[i].k = "idle" /\ statusShown' = statusShown
             /\ (tasks[i].pc = "rp_existing" /\ ~tasks[i].seen) =>
                  tasks'[i].pc = "usn_pref" /\ tasks'[i].calls = tasks[i].calls + 1
             /\ (tasks[i].pc # "rp_existing" /\ tasks'[i].k = "close") =>
                  tasks'[i].calls = tasks[i].calls
             /\ (tasks[i].pc = "rp_check" /\ (tasks[i].seen \/ tasks[i].i = 10)) =>
                  tasks'[i].k = "idle"
             /\ tasks'[i].pc = "rp_wait" =>
                  /\ tasks'[i].i = tasks[i].i + 1
                  /\ \E tm \in timers' \ timers :
                       LET d == tm.deadline - Timeline[clock]
                       IN /\ tm.slot = "repost" /\ tm.id = i
                          /\ d >= 300 /\ d <= 8000
                          /\ tasks'[i].i = 10 => d = 8000 ]_vars
  /\ [][ \A i \in Slots :
           (tasks[i].k = "idle" /\ tasks'[i].k = "close") =>
             /\ tasks'[i].i = 1 /\ tasks'[i].calls = 0
             /\ Timer("repost", "", Timeline[clock] + 300, i) \in timers' ]_vars
  /\ \A i \in Slots : (tasks[i].k = "close") ~> (tasks[i].k = "idle")

\* the tenth attempt of a loop has made its call, the tenth, and finds the
\* status notification still not visible
C21_Witness ==
  \E i \in Slots :
    /\ tasks[i].k = "close" /\ tasks[i].pc = "rp_check"
    /\ tasks[i].i = 10 /\ tasks[i].calls = 10 /\ ~tasks[i].seen

\* C22: the message handler that is resumed with the rejection of its store
\* write (dbClear or dbPut of SYNC_ALARMS, dbPut of SCHEDULE_ALARM, dbDelete
\* of CANCEL_ALARM) goes on: it is still in flight after the step, SYNC_ALARMS
\* and SCHEDULE_ALARM with the keep-alive loop running, and no error has
\* escaped it.
C22_WriteFailureNonFatal ==
  [][ \A i \in Slots :
        (tasks[i].pc = "write_rejected" /\ tasks'[i] # tasks[i]) =>
          /\ tasks'[i].k = tasks[i].k
          /\ tasks[i].k \in { "sync", "schedule" } => keepAliveRunning'
          /\ faults'.escaped = faults.escaped ]_vars

\* C23: an alarm whose display call a scan saw rejected is shown by no scan
\* and its display is rejected once only; when a scan that runs alone
\* returns, every alarm of its snapshot that was due within the grace window
\* (the status tag apart) is no longer stored and was either shown once or
\* rejected, and meta['nextWake'] is the earliest future fireAt of the store.
C23_DisplayFailureStillDeletes ==
  /\ [](\A id \in faults.display : notified[id].scan = 0)
  /\ [][ \A id \in faults'.display \ faults.display : notified[id].scan = 0 ]_vars
  /\ [][ \A i \in Slots : ScanReturns(i) =>
           /\ \A a \in Range(tasks[i].alarms) :
                (InGrace(a, tasks[i].now) /\ a.tag # "alarm-watcher") =>
                  /\ a \notin store'
                  /\ a.id \in faults'.display \/ notified'[a.id].scan = 1
           /\ nextWake' = ExpectedNextWake(store', Timeline[clock]) ]_vars

\* a scan has ended its loop: the display of the first due alarm of its
\* snapshot was rejected, a later one was shown, and neither is stored
C23_Witness ==
  \E i \in Slots : \E a, b \in Range(tasks[i].alarms) :
    /\ ScanLoopDone(i)
    /\ TagRank(a.tag) < TagRank(b.tag)
    /\ InGrace(a, tasks[i].now) /\ InGrace(b, tasks[i].now)
    /\ a.id \in faults.display /\ notified[a.id].scan = 0
    /\ notified[b.id].scan = 1
    /\ a \notin store /\ b \notin store

Stored(id) == \E a \in store : a.id = id
WakeArmedBy(fireAt) == \E tm \in nextWakeTimer : tm.deadline <= fireAt

\* C24 as stated: while no handler is in flight, for every stored alarm with
\* fireAt > now a next-wake timer due by its fireAt is armed or the
\* keep-alive loop runs; and every alarm stored is eventually not stored.
C24_NoAlarmPendingForever ==
  /\ [](Busy = { } =>
          \A a \in store : a.fireAt > Timeline[clock] =>
            WakeArmedBy(a.fireAt) \/ keepAliveRunning)
  /\ \A id \in Ids : Stored(id) ~> ~Stored(id)

\* C24 amended: the same for every alarm whose tag is not the status tag.
C24_NoRealAlarmPendingForever ==
  /\ [](Busy = { } =>
          \A a \in store : (a.fireAt > Timeline[clock] /\ a.tag # "alarm-watcher") =>
            WakeArmedBy(a.fireAt) \/ keepAliveRunning)
  /\ \A id \in Ids :
       (\E a \in store : a.id = id /\ a.tag # "alarm-watcher") ~> ~Stored(id)

\* no handler is in flight, the keep-alive loop has stopped, and an alarm
\* is stored with fireAt > now under a next-wake timer due at its fireAt
C24_Witness ==
  /\ Busy = { } /\ ~keepAliveRunning
  /\ \E a \in store :
       /\ a.tag # "alarm-watcher" /\ a.fireAt > Timeline[clock]
       /\ \E tm \in nextWakeTimer : tm.deadline = a.fireAt

\* C25: a tick timer is armed only while the keep-alive loop runs, and only
\* one; a pending tick is never replaced or postponed, it only fires or is
\* cleared; a tick is armed only by a step that found the loop stopped or by
\* the tick body when it ends with the loop running; stopKeepAlive applied
\* in any state leaves the loop stopped and no tick armed; and a tick body
\* in flight while the loop is stopped, or after it stopped the loop, arms
\* no tick.
C25_KeepAliveStateMachine ==
  /\ [](/\ keepAliveTimer # { } => keepAliveRunning
        /\ TimersOf("tick") = keepAliveTimer
        /\ Cardinality(keepAliveTimer) <= 1)
  /\ [](LET u == stopKeepAlive(State)
        IN /\ ~u.keepAliveRunning /\ u.keepAliveTimer = { }
           /\ \A tm \in u.timers : tm.slot # "tick")
  /\ [][ /\ keepAliveTimer # { } => keepAliveTimer' \in { keepAliveTimer, { } }
         /\ (keepAliveTimer = { } /\ keepAliveTimer' # { }) =>
              \/ ~keepAliveRunning
              \/ \E i \in Slots : /\ tasks[i].k = "tick" /\ tasks[i].pc = "tick_fetched"
                                   /\ tasks'[i].k = "idle"
         /\ \A i \in Slots :
              (/\ tasks[i].k = "tick" /\ tasks'[i] # tasks[i]
               /\ ~keepAliveRunning \/ tasks[i].pc = "csn_got") =>
                keepAliveTimer' = keepAliveTimer ]_vars

\* a tick body that stopped the loop is still in flight while a
\* SCHEDULE_ALARM has started the loop again and armed a tick
C25_Witness ==
  \E i \in Slots :
    /\ tasks[i].k = "tick" /\ tasks[i].pc = "csn_got"
    /\ keepAliveRunning /\ keepAliveTimer # { }

\* C26: a scan never removes an alarm that is not yet due, also when a
\* message handler interleaves with it: no step of a scan in flight takes out
\* of the store a record whose fireAt lies after the present instant, so a
\* future record that SCHEDULE_ALARM put after the scan read its snapshot is
\* still stored when the scan returns.
C26_ScanKeepsFutureAlarms ==
  [][ \A i \in Slots :
        (tasks[i].pc \in CdaPcs /\ tasks'[i] # tasks[i]) =>
          \A a \in store : a.fireAt > Timeline[clock] => a \in store' ]_vars

====
